---- MODULE Spec2Model ----
(***************************************************************************)
(* Model of sqlservertest.py: a linear script that opens an ODBC           *)
(* connection, runs a version query, creates TestTable, inserts one row,   *)
(* selects the rows and closes the connection in a finally block.          *)
(* One action per statement of the script.  The database is the only       *)
(* state that survives a run; a run is one execution of the script.        *)
(***************************************************************************)
EXTENDS Integers, Sequences, FiniteSets, TLC

VARIABLES
    pc,          \* the statement the script is about to execute
    conn,        \* the name `conn`: "unbound", "open" or "closed"
    cursor,      \* the name `cursor`: "unbound" or "bound"
    row,         \* the name `row` after fetchone (a sequence of 0 or 1 lines)
    rows,        \* the name `rows` after fetchall (a sequence of table rows)
    out,         \* standard output of the current run, one element per print
    uncaught,    \* the exception that left the script, "none" if none
    db,          \* committed state of the database: TestTable and its rows
    tx,          \* the state seen by the open connection (uncommitted work)
    calls,       \* driver calls issued by the current run, in order
    failStep,    \* the step whose driver call raised pyodbc.Error, or "none"
    envFault,    \* the failure of this run was an outage, not a SQL error
    run,         \* number of the current run
    fresh0,      \* the database had no TestTable before the first run
    tableAtStart,\* TestTable existed when the current run started
    prevOk       \* the previous run completed every step without failure

vars == <<pc, conn, cursor, row, rows, out, uncaught, db, tx, calls,
          failStep, envFault, run, fresh0, tableAtStart, prevOk>>

\* Number of successive executions of the script against the same database.
MaxRuns == 3

----------------------------------------------------------------------------
\* Data

\* VALUES (1, 'John Doe')
JohnDoe == [id |-> 1, name |-> "John Doe"]

\* A row some other client may have left in a pre-existing TestTable.
OtherRow == [id |-> 2, name |-> "Jane Roe"]

NoTable == [exists |-> FALSE, rows |-> {}]

\* Lines of standard output.
TextLine(s) == [kind |-> "text", id |-> 0, text |-> s]
RowLine(r) == [kind |-> "row", id |-> r.id, text |-> r.name]
VersionLine == [kind |-> "version", id |-> 0, text |-> "Microsoft SQL Server"]
ErrorLine(ex) == [kind |-> "error", id |-> 0, text |-> ex]

\* The rows of a table in primary-key order.
RECURSIVE SortById(_)
SortById(S) ==
    IF S = {} THEN <<>>
    ELSE LET m == CHOOSE r \in S : \A q \in S : r.id <= q.id
         IN <<m>> \o SortById(S \ {m})

RECURSIVE RowLines(_)
RowLines(rs) ==
    IF rs = <<>> THEN <<>>
    ELSE <<RowLine(Head(rs))>> \o RowLines(Tail(rs))

----------------------------------------------------------------------------
\* Control flow of the try / except / finally statement

NextPc_ContinueOnError(p, ok) ==
    CASE p = "connect"        -> "cursor"
      [] p = "cursor"         -> "exec_version"
      [] p = "exec_version"   -> "fetchone"
      [] p = "fetchone"       -> "print_version"
      [] p = "print_version"  -> "exec_create"
      [] p = "exec_create"    -> "commit_create"
      [] p = "commit_create"  -> "print_created"
      [] p = "print_created"  -> "exec_insert"
      [] p = "exec_insert"    -> "commit_insert"
      [] p = "commit_insert"  -> "print_inserted"
      [] p = "print_inserted" -> "exec_select"
      [] p = "exec_select"    -> "fetchall"
      [] p = "fetchall"       -> "print_rows"
      [] p = "print_rows"     -> "finally"
      [] p = "except"         -> "finally"

\* The statement executed after p: the next line of the try block, or the
\* except clause as soon as a driver call raises pyodbc.Error.
NextPc(p, ok) ==
    IF ~ok THEN "except"
    ELSE CASE p = "connect"        -> "cursor"
           [] p = "cursor"         -> "exec_version"
           [] p = "exec_version"   -> "fetchone"
           [] p = "fetchone"       -> "print_version"
           [] p = "print_version"  -> "exec_create"
           [] p = "exec_create"    -> "commit_create"
           [] p = "commit_create"  -> "print_created"
           [] p = "print_created"  -> "exec_insert"
           [] p = "exec_insert"    -> "commit_insert"
           [] p = "commit_insert"  -> "print_inserted"
           [] p = "print_inserted" -> "exec_select"
           [] p = "exec_select"    -> "fetchall"
           [] p = "fetchall"       -> "print_rows"
           [] p = "print_rows"     -> "finally"
           [] p = "except"         -> "finally"

----------------------------------------------------------------------------
\* The SQL statements

CreateTableFails_IfNotExists(t) == FALSE

\* CREATE TABLE TestTable ... is rejected when TestTable already exists.
CreateTableFails(t) == t.exists

\* CREATE TABLE TestTable ...: a new, empty table.
CreateTable(t) == [exists |-> TRUE, rows |-> {}]

\* INSERT ... VALUES (1, 'John Doe') is rejected when TestTable is missing
\* or already holds a row with primary key 1.
InsertFails(t) == ~t.exists \/ \E r \in t.rows : r.id = JohnDoe.id

InsertRow_Twice(t) == [t EXCEPT !.rows = @ \cup {JohnDoe, OtherRow}]

\* INSERT INTO TestTable (id, name) VALUES (1, 'John Doe')
InsertRow(t) == [t EXCEPT !.rows = @ \cup {JohnDoe}]

\* SELECT * FROM TestTable is rejected when TestTable is missing.
SelectFails(t) == ~t.exists

Commit_Lost(committed, pending) == committed

\* conn.commit(): the work of the connection becomes the committed state.
Commit(committed, pending) == pending

CloseConn_Leak(c) == c

\* conn.close() on a bound connection handle.
CloseConn(c) == "closed"

ConnectResult_BindOnFailure(c, ok) == IF ok THEN "open" ELSE "closed"

\* conn = pyodbc.connect(...): the name is bound only when connect returns.
ConnectResult(c, ok) == IF ok THEN "open" ELSE c

----------------------------------------------------------------------------
\* Bookkeeping shared by the driver calls

Call(op, ok) ==
    calls' = Append(calls, [op |-> op, ok |-> ok, conn |-> conn])

\* A driver call at step op that raises when the statement is rejected
\* (sqlFail) or when the server or the network fails (fault).
Raise(op, sqlFail, fault) ==
    /\ Call(op, ~sqlFail /\ ~fault)
    /\ failStep' = IF sqlFail \/ fault THEN op ELSE failStep
    /\ envFault' = (envFault \/ (fault /\ ~sqlFail))
    /\ pc' = NextPc(op, ~sqlFail /\ ~fault)

----------------------------------------------------------------------------
Init ==
    /\ pc = "connect"
    /\ conn = "unbound"
    /\ cursor = "unbound"
    /\ row = <<>>
    /\ rows = <<>>
    /\ out = <<>>
    /\ uncaught = "none"
    /\ db \in {NoTable} \cup
              {[exists |-> TRUE, rows |-> R] : R \in SUBSET {JohnDoe, OtherRow}}
    /\ tx = db
    /\ calls = <<>>
    /\ failStep = "none"
    /\ envFault = FALSE
    /\ run = 1
    /\ fresh0 = ~db.exists
    /\ tableAtStart = db.exists
    /\ prevOk = FALSE

\* conn = pyodbc.connect(connection_string)
Connect ==
    /\ pc = "connect"
    /\ \E fault \in BOOLEAN :
         /\ Raise("connect", FALSE, fault)
         /\ conn' = ConnectResult(conn, ~fault)
    /\ tx' = db
    /\ UNCHANGED <<cursor, row, rows, out, uncaught, db, run, fresh0,
                   tableAtStart, prevOk>>

\* cursor = conn.cursor()
Cursor ==
    /\ pc = "cursor"
    /\ \E fault \in BOOLEAN :
         /\ Raise("cursor", FALSE, fault)
         /\ cursor' = IF fault THEN cursor ELSE "bound"
    /\ UNCHANGED <<conn, row, rows, out, uncaught, db, tx, run, fresh0,
                   tableAtStart, prevOk>>

\* cursor.execute("SELECT @@version;")
ExecVersion ==
    /\ pc = "exec_version"
    /\ \E fault \in BOOLEAN : Raise("exec_version", FALSE, fault)
    /\ UNCHANGED <<conn, cursor, row, rows, out, uncaught, db, tx, run,
                   fresh0, tableAtStart, prevOk>>

\* row = cursor.fetchone()
FetchOne ==
    /\ pc = "fetchone"
    /\ \E fault \in BOOLEAN :
         /\ Raise("fetchone", FALSE, fault)
         /\ row' = IF fault THEN row ELSE <<VersionLine>>
    /\ UNCHANGED <<conn, cursor, rows, out, uncaught, db, tx, run, fresh0,
                   tableAtStart, prevOk>>

\* print("SQL Server version:"); print(row)
PrintVersion ==
    /\ pc = "print_version"
    /\ out' = out \o <<TextLine("SQL Server version:")>> \o row
    /\ pc' = NextPc("print_version", TRUE)
    /\ UNCHANGED <<conn, cursor, row, rows, uncaught, db, tx, calls,
                   failStep, envFault, run, fresh0, tableAtStart, prevOk>>

\* cursor.execute("CREATE TABLE TestTable (id INT PRIMARY KEY, ...);")
ExecCreate ==
    /\ pc = "exec_create"
    /\ \E fault \in BOOLEAN :
         /\ Raise("exec_create", CreateTableFails(tx), fault)
         /\ tx' = IF CreateTableFails(tx) \/ fault THEN tx ELSE CreateTable(tx)
    /\ UNCHANGED <<conn, cursor, row, rows, out, uncaught, db, run, fresh0,
                   tableAtStart, prevOk>>

\* conn.commit() after CREATE TABLE
CommitCreate ==
    /\ pc = "commit_create"
    /\ \E fault \in BOOLEAN :
         /\ Raise("commit_create", FALSE, fault)
         /\ db' = IF fault THEN db ELSE Commit(db, tx)
    /\ UNCHANGED <<conn, cursor, row, rows, out, uncaught, tx, run, fresh0,
                   tableAtStart, prevOk>>

\* print("Table created successfully.")
PrintCreated ==
    /\ pc = "print_created"
    /\ out' = Append(out, TextLine("Table created successfully."))
    /\ pc' = NextPc("print_created", TRUE)
    /\ UNCHANGED <<conn, cursor, row, rows, uncaught, db, tx, calls,
                   failStep, envFault, run, fresh0, tableAtStart, prevOk>>

\* cursor.execute("INSERT INTO TestTable (id, name) VALUES (1, 'John Doe');")
ExecInsert ==
    /\ pc = "exec_insert"
    /\ \E fault \in BOOLEAN :
         /\ Raise("exec_insert", InsertFails(tx), fault)
         /\ tx' = IF InsertFails(tx) \/ fault THEN tx ELSE InsertRow(tx)
    /\ UNCHANGED <<conn, cursor, row, rows, out, uncaught, db, run, fresh0,
                   tableAtStart, prevOk>>

\* conn.commit() after INSERT
CommitInsert ==
    /\ pc = "commit_insert"
    /\ \E fault \in BOOLEAN :
         /\ Raise("commit_insert", FALSE, fault)
         /\ db' = IF fault THEN db ELSE Commit(db, tx)
    /\ UNCHANGED <<conn, cursor, row, rows, out, uncaught, tx, run, fresh0,
                   tableAtStart, prevOk>>

\* print("Data inserted successfully.")
PrintInserted ==
    /\ pc = "print_inserted"
    /\ out' = Append(out, TextLine("Data inserted successfully."))
    /\ pc' = NextPc("print_inserted", TRUE)
    /\ UNCHANGED <<conn, cursor, row, rows, uncaught, db, tx, calls,
                   failStep, envFault, run, fresh0, tableAtStart, prevOk>>

\* cursor.execute("SELECT * FROM TestTable;")
ExecSelect ==
    /\ pc = "exec_select"
    /\ \E fault \in BOOLEAN : Raise("exec_select", SelectFails(tx), fault)
    /\ UNCHANGED <<conn, cursor, row, rows, out, uncaught, db, tx, run,
                   fresh0, tableAtStart, prevOk>>

\* rows = cursor.fetchall()
FetchAll ==
    /\ pc = "fetchall"
    /\ \E fault \in BOOLEAN :
         /\ Raise("fetchall", FALSE, fault)
         /\ rows' = IF fault THEN rows ELSE SortById(tx.rows)
    /\ UNCHANGED <<conn, cursor, row, out, uncaught, db, tx, run, fresh0,
                   tableAtStart, prevOk>>

\* for row in rows: print(row)
PrintRows ==
    /\ pc = "print_rows"
    /\ out' = out \o RowLines(rows)
    /\ pc' = NextPc("print_rows", TRUE)
    /\ UNCHANGED <<conn, cursor, row, rows, uncaught, db, tx, calls,
                   failStep, envFault, run, fresh0, tableAtStart, prevOk>>

\* except pyodbc.Error as ex: print("An error occurred:", ex)
Except ==
    /\ pc = "except"
    /\ out' = Append(out, ErrorLine(failStep))
    /\ pc' = NextPc("except", TRUE)
    /\ UNCHANGED <<conn, cursor, row, rows, uncaught, db, tx, calls,
                   failStep, envFault, run, fresh0, tableAtStart, prevOk>>

\* finally: if conn: conn.close()
\* Reading the name conn raises NameError when connect never returned; the
\* exception leaves the script.  A bound Connection object is true, and
\* closing it discards the work that was not committed.
Finally ==
    /\ pc = "finally"
    /\ IF conn = "unbound"
       THEN /\ uncaught' = "NameError"
            /\ pc' = "crashed"
            /\ UNCHANGED <<conn, tx, calls>>
       ELSE /\ Call("close", TRUE)
            /\ conn' = CloseConn(conn)
            /\ tx' = db
            /\ pc' = "done"
            /\ UNCHANGED uncaught
    /\ UNCHANGED <<cursor, row, rows, out, db, failStep, envFault, run,
                   fresh0, tableAtStart, prevOk>>

\* The script is started again against the same database.
NewRun ==
    /\ pc \in {"done", "crashed"}
    /\ run < MaxRuns
    /\ run' = run + 1
    /\ prevOk' = (pc = "done" /\ failStep = "none")
    /\ tableAtStart' = db.exists
    /\ pc' = "connect"
    /\ conn' = "unbound"
    /\ cursor' = "unbound"
    /\ row' = <<>>
    /\ rows' = <<>>
    /\ out' = <<>>
    /\ uncaught' = "none"
    /\ tx' = db
    /\ calls' = <<>>
    /\ failStep' = "none"
    /\ envFault' = FALSE
    /\ UNCHANGED <<db, fresh0>>

Next ==
    \/ Connect
    \/ Cursor
    \/ ExecVersion
    \/ FetchOne
    \/ PrintVersion
    \/ ExecCreate
    \/ CommitCreate
    \/ PrintCreated
    \/ ExecInsert
    \/ CommitInsert
    \/ PrintInserted
    \/ ExecSelect
    \/ FetchAll
    \/ PrintRows
    \/ Except
    \/ Finally
    \/ NewRun

Spec == Init /\ [][Next]_vars

----------------------------------------------------------------------------
\* Vocabulary of the properties

\* The script has ended: normally, or with an exception leaving it.
Terminal == pc \in {"done", "crashed"}

\* The driver calls of the try block, in program order.
DriverOrder ==
    <<"connect", "cursor", "exec_version", "fetchone", "exec_create",
      "commit_create", "exec_insert", "commit_insert", "exec_select",
      "fetchall">>

Called(op) == \E i \in DOMAIN calls : calls[i].op = op
Succeeded(op) == \E i \in DOMAIN calls : calls[i].op = op /\ calls[i].ok
Printed(line) == \E i \in DOMAIN out : out[i] = line
ErrorCount == Cardinality({i \in DOMAIN out : out[i].kind = "error"})
TryCalls == SelectSeq(calls, LAMBDA c : c.op # "close")

CreatedLine == TextLine("Table created successfully.")
InsertedLine == TextLine("Data inserted successfully.")

----------------------------------------------------------------------------
\* C1: when the connect step fails, the run ends normally: no further
\* exception leaves the script from the cleanup step, and no close is
\* attempted on the connection that was never opened.
C1_ConnectFailureEndsNormally ==
    (failStep = "connect" /\ Terminal) =>
        (pc = "done" /\ uncaught = "none" /\ ~Called("close"))

\* C2: a run that opened the connection has closed it when it ends,
\* whichever later step failed or whether all succeeded.
C2_OpenedConnectionIsClosed ==
    (Terminal /\ Succeeded("connect")) => (conn = "closed" /\ Called("close"))

C2_Witness ==
    /\ pc = "done"
    /\ conn = "closed"
    /\ failStep = "commit_insert"

\* C3: a run against a database without TestTable in which every driver
\* call succeeds prints the version row (under its heading), then "Table
\* created successfully.", then "Data inserted successfully.", then the one
\* row (1, 'John Doe'), prints no error message and ends with the
\* connection closed.
C3_FullRunOutput ==
    (Terminal /\ ~tableAtStart /\ failStep = "none") =>
        /\ out = <<TextLine("SQL Server version:"), VersionLine, CreatedLine,
                   InsertedLine, RowLine(JohnDoe)>>
        /\ ErrorCount = 0
        /\ pc = "done"
        /\ conn = "closed"

C3_Witness ==
    /\ pc = "done"
    /\ ~tableAtStart
    /\ failStep = "none"
    /\ Len(out) = 5

\* C4: in a run started against a database where TestTable exists, the
\* table-creation statement fails; neither success message is printed and
\* the insert and select statements are never executed; the run that
\* reached the creation step ends with one error message printed and the
\* connection closed.
C4_ExistingTableFailsCreate ==
    tableAtStart =>
        /\ ~Succeeded("exec_create")
        /\ ~Printed(CreatedLine)
        /\ ~Printed(InsertedLine)
        /\ ~Called("exec_insert")
        /\ ~Called("exec_select")
        /\ (Terminal /\ Called("exec_create")) =>
              /\ failStep = "exec_create"
              /\ ErrorCount = 1
              /\ out[Len(out)] = ErrorLine("exec_create")
              /\ pc = "done"
              /\ conn = "closed"

C4_Witness ==
    /\ tableAtStart
    /\ pc = "done"
    /\ failStep = "exec_create"
    /\ ~envFault
    /\ conn = "closed"

\* C5: the driver calls are issued in the fixed program order and the run
\* stops at the first failing one: a failed call is followed by no other
\* call than close, and once a step has failed the run only prints the
\* error message and cleans up -- no success message, no commit, no
\* change of the database.
C5_CallsInOrder ==
    /\ Len(TryCalls) <= Len(DriverOrder)
    /\ \A i \in DOMAIN TryCalls : TryCalls[i].op = DriverOrder[i]
    /\ \A i \in DOMAIN calls :
         ~calls[i].ok => /\ failStep = calls[i].op
                         /\ \A j \in DOMAIN calls :
                              j > i => calls[j].op = "close"
    /\ failStep # "none" => pc \in {"except", "finally", "done", "crashed"}

C5_AfterFailure ==
    (failStep # "none" /\ run' = run) =>
        /\ db' = db
        /\ failStep' = failStep
        /\ \/ out' = out
           \/ /\ pc = "except"
              /\ out' = Append(out, ErrorLine(failStep))
        /\ \/ calls' = calls
           \/ /\ pc = "finally"
              /\ calls' = Append(calls, [op |-> "close", ok |-> TRUE,
                                         conn |-> "open"])

C5_StopsAtFirstFailure == [](C5_CallsInOrder) /\ [][C5_AfterFailure]_vars

C5_Witness ==
    /\ pc = "done"
    /\ failStep = "exec_version"
    /\ Len(calls) = 4
    /\ Len(out) = 1

\* C6: of two successive runs against an initially fresh database, the
\* first completes every step; the second fails and prints an error
\* message, at the table-creation step unless the server fails earlier,
\* and TestTable holds exactly the row (1, 'John Doe') during and after
\* the second run.
C6_SecondRunFailsAtCreate ==
    /\ (fresh0 /\ run = 1 /\ Terminal /\ ~envFault) =>
          (failStep = "none" /\ pc = "done")
    /\ (fresh0 /\ run = 2 /\ prevOk) =>
          /\ db = [exists |-> TRUE, rows |-> {JohnDoe}]
          /\ ~Succeeded("exec_create")
          /\ Terminal =>
                /\ failStep # "none"
                /\ ErrorCount = 1
                /\ ~envFault => failStep = "exec_create"

C6_Witness ==
    /\ fresh0
    /\ run = 2
    /\ prevOk
    /\ pc = "done"
    /\ failStep = "exec_create"
    /\ db.rows = {JohnDoe}

\* C7: every failure of a driver call is caught at the top level: the run
\* prints exactly one error message, runs the cleanup step and ends
\* without an exception leaving the script.
C7_EveryFailureCaught ==
    (failStep # "none" /\ Terminal) =>
        (ErrorCount = 1 /\ uncaught = "none" /\ pc = "done")

\* C8: a commit is issued only right after a successful CREATE TABLE and
\* right after a successful INSERT, at most twice per run; a success
\* message is printed only after its commit succeeded; when the insert
\* fails after a successful creation the empty TestTable stays committed.
C8_CommitOnlyAfterSuccess ==
    /\ \A i \in DOMAIN calls :
         /\ calls[i].op = "commit_create" =>
               i > 1 /\ calls[i-1].op = "exec_create" /\ calls[i-1].ok
         /\ calls[i].op = "commit_insert" =>
               i > 1 /\ calls[i-1].op = "exec_insert" /\ calls[i-1].ok
    /\ Cardinality({i \in DOMAIN calls :
           calls[i].op \in {"commit_create", "commit_insert"}}) <= 2
    /\ Cardinality({i \in DOMAIN calls : calls[i].op = "commit_create"}) <= 1
    /\ Cardinality({i \in DOMAIN calls : calls[i].op = "commit_insert"}) <= 1
    /\ Printed(CreatedLine) => Succeeded("commit_create")
    /\ Printed(InsertedLine) => Succeeded("commit_insert")
    /\ (failStep = "exec_insert" /\ Succeeded("commit_create")) =>
          db = [exists |-> TRUE, rows |-> {}]

C8_Witness ==
    /\ pc = "done"
    /\ failStep = "exec_insert"
    /\ Succeeded("commit_create")
    /\ Printed(CreatedLine)
    /\ db = [exists |-> TRUE, rows |-> {}]

\* C9: over successive runs from a database without TestTable, the
\* committed table never holds a row other than (1, 'John Doe'), hence at
\* most one row; the insert is reached only in a run that created and
\* committed the table itself; no run drops the table or removes a row.
C9_AtMostTheOneRow ==
    fresh0 =>
        /\ db.rows \subseteq {JohnDoe}
        /\ tx.rows \subseteq {JohnDoe}
        /\ Cardinality(db.rows) <= 1
        /\ ~db.exists => db.rows = {}
        /\ Called("exec_insert") =>
              (~tableAtStart /\ Succeeded("exec_create")
                 /\ Succeeded("commit_create"))

C9_NothingRemoved ==
    fresh0 =>
        /\ db.exists => db'.exists
        /\ db.rows \subseteq db'.rows

C9_TableHoldsAtMostOneRow == [](C9_AtMostTheOneRow) /\ [][C9_NothingRemoved]_vars

C9_Witness ==
    /\ fresh0
    /\ run = MaxRuns
    /\ Terminal
    /\ db.rows = {JohnDoe}
    /\ failStep = "exec_create"

\* C10: the connection is opened, then used, then closed: connect is the
\* first call of a run, every statement, fetch and commit is issued on the
\* open connection, close is issued at most once, as the last call, on a
\* connection that a successful connect opened.
C10_OpenUseClose ==
    /\ \A i \in DOMAIN calls :
         /\ calls[i].op = "connect" => (i = 1 /\ calls[i].conn = "unbound")
         /\ calls[i].op \notin {"connect", "close"} =>
               (calls[i].conn = "open" /\ calls[1].op = "connect"
                  /\ calls[1].ok)
         /\ calls[i].op = "close" =>
               /\ calls[i].conn = "open"
               /\ i = Len(calls)
               /\ i > 1
               /\ calls[1].op = "connect" /\ calls[1].ok
    /\ Cardinality({i \in DOMAIN calls : calls[i].op = "close"}) <= 1
    /\ conn = "closed" => (Called("close") /\ Terminal)
    /\ conn = "open" => (Succeeded("connect") /\ ~Called("close"))

C10_Witness ==
    /\ pc = "done"
    /\ conn = "closed"
    /\ failStep = "fetchall"
    /\ Len(calls) = 11

====
